---- MODULE Spec2Model ----
(***************************************************************************)
(* A model of the polls application (bravmi/mysite): the Question, Choice, *)
(* Comment and Profile tables of polls/models.py and the request handlers  *)
(* of polls/views.py.                                                      *)
(*                                                                         *)
(* Time is counted in hours; the clock starts at hour 0 and publication    *)
(* dates are hours relative to that start (negative: before it).           *)
(* Primary keys are the positions of the rows in their table, as the       *)
(* database hands them out: 1, 2, 3, ... (no row is ever deleted here).    *)
(***************************************************************************)
EXTENDS Integers, Sequences, FiniteSets, TLC

\* ------------------------------------------------------------------ bounds
\* The serial specifications: rows per table and votes per choice.
MaxQuestions == 2
MaxChoices == 2
MaxVotes == 2
MaxComments == 1
\* Spec, SpecFrame and SpecChoices keep a smaller database.
SmallQuestions == 1
SmallChoices == 1
\* SpecIndex: the questions that may share one publication date.
MaxSameDate == 2
\* SpecUsers
MaxUsers == 4
\* Accounts beside the polls in SpecSerial.
SerialUsers == 1
\* The last hour the clock reaches.
MaxNow == 1

\* ------------------------------------------------------- program constants
\* datetime.timedelta(days=1), in hours.
OneDay == 24
\* The slice [:5] of IndexView.get_queryset.
PageSize == 5
\* SpecIndex: one question more than a page of the index holds.
MaxIndexQuestions == PageSize + 1

\* Two request-handling threads: a vote in flight on each is the interleaving
\* of two requests.
Workers == {"w1", "w2"}
\* The serial specifications serve every request on one thread.
SerialWorker == "w1"

VARIABLES
    now,              \* timezone.now(), in hours
    questions,        \* table polls_question: pk -> [pub_date]
    choices,          \* table polls_choice: pk -> [question, votes]
    comments,         \* table polls_comment: pk -> [question]
    users,            \* table auth_user: pk -> [is_staff, is_superuser]
    profiles,         \* table polls_profile: pk -> [user]
    request,          \* per worker: the request it serves or served last
    pc,               \* per worker: "idle", "save" (vote between get and save), "done"
    selected_choice,  \* per worker: the Choice instance vote() holds in memory
    response,         \* per worker: the response to its last request
    redirects         \* per choice pk: vote requests answered with the redirect to results

vars == <<now, questions, choices, comments, users, profiles,
          request, pc, selected_choice, response, redirects>>

database == <<questions, choices, comments, users, profiles>>

\* ------------------------------------------------------------ request data
\* request.user as the views read it.
AnonymousUser == [is_authenticated |-> FALSE, is_superuser |-> FALSE]
PlainUser == [is_authenticated |-> TRUE, is_superuser |-> FALSE]
SuperUser == [is_authenticated |-> TRUE, is_superuser |-> TRUE]
RequestUsers == {AnonymousUser, PlainUser, SuperUser}
\* vote() reads is_authenticated alone.
Voters == {AnonymousUser, PlainUser}

\* request.POST: no 'choice' key, or one value: a number or some other text.
NoPost == <<>>
PostChoice(n) == <<[numeric |-> TRUE, int |-> n]>>
PostText == <<[numeric |-> FALSE, int |-> 0]>>

NoRequest == [view |-> "", user |-> AnonymousUser, pk |-> 0, POST |-> NoPost]
NoChoice == [pk |-> 0, votes |-> 0]

\* --------------------------------------------------------------- responses
NoResponse ==
    [status |-> 0, template |-> "", location |-> "", pk |-> 0, next |-> "",
     error_message |-> "", object_list |-> <<>>, value |-> FALSE]

\* settings.LOGIN_URL: the route named 'login'.
LOGIN_URL == "login"

HttpResponseRedirect(route, pk) ==
    [NoResponse EXCEPT !.status = 302, !.location = route, !.pk = pk]

\* login_required: redirect to LOGIN_URL with ?next=<the requested url>.
redirect_to_login(route, pk) ==
    [NoResponse EXCEPT !.status = 302, !.location = LOGIN_URL, !.next = route, !.pk = pk]

Http404 == [NoResponse EXCEPT !.status = 404]

\* An exception no handler catches.
ServerError == [NoResponse EXCEPT !.status = 500]

render(template, pk, error_message) ==
    [NoResponse EXCEPT !.status = 200, !.template = template, !.pk = pk,
                       !.error_message = error_message]

\* ---------------------------------------------------------------- queries
\* Faulty variant: the lookup that also applies the rule of the hidden
\* questions (a future publication date, or no choice, is not found).
QuestionExistsAndShown(pk) ==
    /\ pk \in DOMAIN questions
    /\ questions[pk].pub_date <= now
    /\ {c \in DOMAIN choices : choices[c].question = pk} # {}

\* get_object_or_404(Question, pk=pk), and the lookup of DetailView.get_object.
QuestionExists(pk) == pk \in DOMAIN questions

\* Faulty variant: Choice.objects in place of question.choice_set.
choice_set_any_question(q) == DOMAIN choices

\* question.choice_set: the pks of the choices of question q.
choice_set(q) == {c \in DOMAIN choices : choices[c].question = q}

\* --------------------------------------------------------------- the clock
Tick ==
    /\ now < MaxNow
    /\ now' = now + 1
    /\ UNCHANGED <<database, request, pc, selected_choice, response, redirects>>

\* ---------------------------------------------------- writes of the tables
\* Question.objects.create(pub_date=d)
CreateQuestion(maxq, dates) ==
    /\ Len(questions) < maxq
    /\ \E d \in dates : questions' = Append(questions, [pub_date |-> d])
    /\ UNCHANGED <<now, choices, comments, users, profiles,
                   request, pc, selected_choice, response, redirects>>

\* Choice.objects.create(question=q): votes defaults to 0.
CreateChoice(maxc) ==
    /\ Len(choices) < maxc
    /\ \E q \in DOMAIN questions :
           choices' = Append(choices, [question |-> q, votes |-> 0])
    /\ redirects' = Append(redirects, 0)
    /\ UNCHANGED <<now, questions, comments, users, profiles,
                   request, pc, selected_choice, response>>

\* ------------------------------------------------------------------- vote
\* The worker is free to take a request.
Free(w) == pc[w] # "save"

\* The bound on the votes: the vote requests answered with the redirect and
\* those between get and save are fewer than MaxVotes.
RECURSIVE Sum(_)
Sum(s) == IF s = <<>> THEN 0 ELSE s[1] + Sum(Tail(s))

VoteBudget ==
    Sum(redirects) + Cardinality({w \in Workers : pc[w] = "save"}) < MaxVotes

Answer(w, req, resp, sel) ==
    /\ request' = [request EXCEPT ![w] = req]
    /\ response' = [response EXCEPT ![w] = resp]
    /\ selected_choice' = [selected_choice EXCEPT ![w] = sel]
    /\ pc' = [pc EXCEPT ![w] = "done"]

\* Faulty variant: the view without its decorator.
login_not_required(user) == TRUE

\* @login_required: the view runs for this caller.
login_required(user) == user.is_authenticated

\* vote(), from the login check to choice_set.get(): every path but the last
\* answers at once; the last leaves the instance read from the table in
\* selected_choice, to be incremented and saved.
vote_get(w, user, question_id, POST) ==
    LET req == [view |-> "vote", user |-> user, pk |-> question_id, POST |-> POST] IN
    /\ Free(w)
    /\ IF ~login_required(user)
         THEN /\ Answer(w, req, redirect_to_login("polls:vote", question_id), NoChoice)
              /\ UNCHANGED <<now, database, redirects>>
       ELSE IF ~QuestionExists(question_id)
         THEN /\ Answer(w, req, Http404, NoChoice)
              /\ UNCHANGED <<now, database, redirects>>
       ELSE IF POST = NoPost
         THEN \* KeyError
              /\ Answer(w, req, render("polls/detail.html", question_id,
                                       "You didn't select a choice."), NoChoice)
              /\ UNCHANGED <<now, database, redirects>>
       ELSE IF ~POST[1].numeric
         THEN \* ValueError from the pk lookup: not caught
              /\ Answer(w, req, ServerError, NoChoice)
              /\ UNCHANGED <<now, database, redirects>>
       ELSE IF POST[1].int \notin choice_set(question_id)
         THEN \* Choice.DoesNotExist
              /\ Answer(w, req, render("polls/detail.html", question_id,
                                       "You didn't select a choice."), NoChoice)
              /\ UNCHANGED <<now, database, redirects>>
       ELSE /\ VoteBudget
            /\ request' = [request EXCEPT ![w] = req]
            /\ response' = [response EXCEPT ![w] = NoResponse]
            /\ selected_choice' = [selected_choice EXCEPT ![w] =
                   [pk |-> POST[1].int, votes |-> choices[POST[1].int].votes]]
            /\ pc' = [pc EXCEPT ![w] = "save"]
            /\ UNCHANGED <<now, database, redirects>>

\* Faulty variant: selected_choice.votes = 1
AssignedOne(sel) == [sel EXCEPT !.votes = 1]

\* selected_choice.votes += 1
Incremented(sel) == [sel EXCEPT !.votes = sel.votes + 1]

\* Faulty variant: the increment done by the database on the stored value
\* (votes = F('votes') + 1), the value read before left aside.
SavedByDatabase(sel) == [choices EXCEPT ![sel.pk].votes = @ + 1]

\* Faulty variant: the new count written to every choice of the question
\* (question.choice_set.update(votes=...)).
SavedToQuestion(sel) ==
    [c \in DOMAIN choices |->
        IF choices[c].question = choices[sel.pk].question
        THEN [choices[c] EXCEPT !.votes = sel.votes] ELSE choices[c]]

\* selected_choice.save(): the row takes the fields of the instance.
Saved(sel) == [choices EXCEPT ![sel.pk].votes = sel.votes]

\* vote(), the else branch: increment, save, redirect to the results.
vote_save(w) ==
    /\ pc[w] = "save"
    /\ selected_choice' = [selected_choice EXCEPT ![w] = Incremented(selected_choice[w])]
    /\ choices' = Saved(selected_choice'[w])
    /\ response' = [response EXCEPT ![w] = HttpResponseRedirect("polls:results", request[w].pk)]
    /\ redirects' = [redirects EXCEPT ![selected_choice[w].pk] = @ + 1]
    /\ pc' = [pc EXCEPT ![w] = "done"]
    /\ UNCHANGED <<now, questions, comments, users, profiles, request>>

\* A vote request: any caller, a question id and a posted choice that exist or
\* do not.
VoteRequest(w) ==
    \E user \in Voters, question_id \in 1..(Len(questions) + 1),
       POST \in {NoPost, PostText} \cup {PostChoice(n) : n \in 1..(Len(choices) + 1)} :
        vote_get(w, user, question_id, POST)

\* ------------------------------------------------------ Question's methods
\* Faulty variant: the lower bound of the window excluded.
was_published_recently_open(pk) ==
    /\ now - OneDay < questions[pk].pub_date
    /\ questions[pk].pub_date <= now

\* Question.was_published_recently, for the row pk at the present hour.
was_published_recently(pk) ==
    /\ now - OneDay <= questions[pk].pub_date
    /\ questions[pk].pub_date <= now

\* Faulty variant: the check of the choices forgotten.
is_hidden_future_only(pk) == questions[pk].pub_date > now

\* Question.is_hidden
is_hidden(pk) ==
    \/ questions[pk].pub_date > now
    \/ ~(choice_set(pk) # {})

\* ----------------------------------------------------------------- ORDER BY
\* Every order the database may return the rows S in under ORDER BY key DESC:
\* rows of equal key come in any order.
RECURSIVE Orderings(_, _)
Orderings(S, key) ==
    IF S = {} THEN {<<>>}
    ELSE UNION { { <<x>> \o s : s \in Orderings(S \ {x}, key) } :
                 x \in {y \in S : \A z \in S : key[y] >= key[z]} }

Min(a, b) == IF a <= b THEN a ELSE b

\* The key ORDER BY ... DESC sorts the choices by, for an ordering of Choice.
ChoiceKey(ordering) ==
    CASE ordering = "-votes" -> [c \in DOMAIN choices |-> choices[c].votes]
      [] ordering = "votes" -> [c \in DOMAIN choices |-> 0 - choices[c].votes]
      [] OTHER -> [c \in DOMAIN choices |-> 0 - c]

\* Faulty variant: no Meta.ordering, the rows in primary-key order.
ChoiceNoOrdering == "pk"

\* Choice.Meta.ordering
ChoiceMetaOrdering == "-votes"

\* question.choice_set.order_by(ordering): the listings the query may return.
choice_set_order_by(q, ordering) == Orderings(choice_set(q), ChoiceKey(ordering))

\* question.choice_set.all(): ordered by Meta.ordering.
choice_set_all(q) == choice_set_order_by(q, ChoiceMetaOrdering)

\* ------------------------------------------------------------------ views
\* Faulty variant: the filter on pub_date forgotten.
get_queryset_unfiltered ==
    LET key == [q \in DOMAIN questions |-> questions[q].pub_date]
    IN { SubSeq(s, 1, Min(PageSize, Len(s))) : s \in Orderings(DOMAIN questions, key) }

\* IndexView.get_queryset: the listings the query may return.
get_queryset ==
    LET published == {q \in DOMAIN questions : questions[q].pub_date <= now}
        key == [q \in DOMAIN questions |-> questions[q].pub_date]
    IN { SubSeq(s, 1, Min(PageSize, Len(s))) : s \in Orderings(published, key) }

\* GET polls/ : public.
IndexView(w, user) ==
    /\ Free(w)
    /\ \E list \in get_queryset :
           Answer(w, [view |-> "index", user |-> user, pk |-> 0, POST |-> NoPost],
                  [render("polls/index.html", 0, "") EXCEPT !.object_list = list],
                  NoChoice)
    /\ UNCHANGED <<now, database, redirects>>

\* get_object of QuestionView and of ResultsView (the same code): TRUE when
\* the question is returned, FALSE when Http404 is raised.
get_object(user, pk) ==
    IF ~QuestionExists(pk) THEN FALSE
    ELSE IF is_hidden(pk) /\ ~user.is_superuser THEN FALSE
    ELSE TRUE

\* GET polls/<pk>/
QuestionView(w, user, pk) ==
    /\ Free(w)
    /\ Answer(w, [view |-> "question", user |-> user, pk |-> pk, POST |-> NoPost],
              IF get_object(user, pk) THEN render("polls/question.html", pk, "") ELSE Http404,
              NoChoice)
    /\ UNCHANGED <<now, database, redirects>>

\* GET polls/<pk>/results/
ResultsView(w, user, pk) ==
    /\ Free(w)
    /\ Answer(w, [view |-> "results", user |-> user, pk |-> pk, POST |-> NoPost],
              IF get_object(user, pk) THEN render("polls/results.html", pk, "") ELSE Http404,
              NoChoice)
    /\ UNCHANGED <<now, database, redirects>>

\* A call of question.was_published_recently() (the admin's list column).
PublishedRecentlyCall(w, pk) ==
    /\ Free(w)
    /\ pk \in DOMAIN questions
    /\ Answer(w, [view |-> "was_published_recently", user |-> SuperUser, pk |-> pk,
                  POST |-> NoPost],
              [NoResponse EXCEPT !.pk = pk, !.value = was_published_recently(pk)],
              NoChoice)
    /\ UNCHANGED <<now, database, redirects>>

\* A listing of question.choice_set.all().
ChoiceSetAll(w, pk) ==
    /\ Free(w)
    /\ pk \in DOMAIN questions
    /\ \E list \in choice_set_all(pk) :
           Answer(w, [view |-> "choice_set", user |-> SuperUser, pk |-> pk, POST |-> NoPost],
                  [NoResponse EXCEPT !.pk = pk, !.object_list = list],
                  NoChoice)
    /\ UNCHANGED <<now, database, redirects>>

\* choice.votes = v; choice.save()
SaveChoice(c, v) ==
    /\ c \in DOMAIN choices
    /\ choices' = [choices EXCEPT ![c].votes = v]
    /\ UNCHANGED <<now, questions, comments, users, profiles,
                   request, pc, selected_choice, response, redirects>>

\* Comment.objects.create(question=q)
CreateComment(maxc) ==
    /\ Len(comments) < maxc
    /\ \E q \in DOMAIN questions : comments' = Append(comments, [question |-> q])
    /\ UNCHANGED <<now, questions, choices, users, profiles,
                   request, pc, selected_choice, response, redirects>>

\* --------------------------------------------------------------- accounts
\* Faulty variant: a profile created on every save.
create_profile_on_every_save(instance, created) == Append(profiles, [user |-> instance])

\* The post_save receiver of User: the profiles table after the signal.
create_and_save_profile(instance, created) ==
    IF created THEN Append(profiles, [user |-> instance]) ELSE profiles

\* User.objects.create_user / create_superuser: the row is inserted and
\* post_save is sent with created=True.
CreateUser(maxu) ==
    /\ Len(users) < maxu
    /\ \E su \in BOOLEAN :
           users' = Append(users, [is_staff |-> su, is_superuser |-> su])
    /\ profiles' = create_and_save_profile(Len(users) + 1, TRUE)
    /\ UNCHANGED <<now, questions, choices, comments,
                   request, pc, selected_choice, response, redirects>>

\* user.save() of an existing row, its flags changed or not: post_save is
\* sent with created=False.
SaveUser ==
    /\ \E u \in DOMAIN users, staff \in BOOLEAN, su \in BOOLEAN :
           /\ users' = [users EXCEPT ![u] = [is_staff |-> staff, is_superuser |-> su]]
           /\ profiles' = create_and_save_profile(u, FALSE)
    /\ UNCHANGED <<now, questions, choices, comments,
                   request, pc, selected_choice, response, redirects>>

\* ------------------------------------------------------------------ specs
Init ==
    /\ now = 0
    /\ questions = <<>>
    /\ choices = <<>>
    /\ comments = <<>>
    /\ users = <<>>
    /\ profiles = <<>>
    /\ request = [w \in Workers |-> NoRequest]
    /\ pc = [w \in Workers |-> "idle"]
    /\ selected_choice = [w \in Workers |-> NoChoice]
    /\ response = [w \in Workers |-> NoResponse]
    /\ redirects = <<>>

\* Concurrent votes: each worker serves vote requests, and the two steps of
\* a vote on one worker interleave with those on the other.
Next ==
    \/ CreateQuestion(SmallQuestions, {0})
    \/ CreateChoice(SmallChoices)
    \/ \E w \in Workers : VoteRequest(w)
    \/ \E w \in Workers : vote_save(w)

Spec == Init /\ [][Next]_vars

\* Requests served one at a time, beside the writes of every table.
NextSerial ==
    \/ CreateQuestion(MaxQuestions, {0})
    \/ CreateChoice(MaxChoices)
    \/ VoteRequest(SerialWorker)
    \/ vote_save(SerialWorker)

NextFrame ==
    \/ CreateQuestion(SmallQuestions, {0})
    \/ CreateChoice(MaxChoices)
    \/ CreateComment(MaxComments)
    \/ CreateUser(SerialUsers)
    \/ VoteRequest(SerialWorker)
    \/ vote_save(SerialWorker)

SpecFrame == Init /\ [][NextFrame]_vars

SpecSerial == Init /\ [][NextSerial]_vars

\* The pages of a question, as the clock advances.
PubDates == {0 - OneDay, 1 - OneDay, 0, 1}

NextViews ==
    \/ Tick
    \/ CreateQuestion(MaxQuestions, PubDates)
    \/ CreateChoice(MaxChoices)
    \/ \E user \in RequestUsers, pk \in 1..(Len(questions) + 1) :
           QuestionView(SerialWorker, user, pk)
    \/ \E user \in RequestUsers, pk \in 1..(Len(questions) + 1) :
           ResultsView(SerialWorker, user, pk)
    \/ \E pk \in DOMAIN questions : PublishedRecentlyCall(SerialWorker, pk)

SpecViews == Init /\ [][NextViews]_vars

\* The index, with more questions than a page holds.
IndexDates == {0 - OneDay, 0, 1}

\* The dates fewer than MaxSameDate questions carry.
OpenDates ==
    {d \in IndexDates :
        Cardinality({q \in DOMAIN questions : questions[q].pub_date = d}) < MaxSameDate}

NextIndex ==
    \/ Tick
    \/ CreateQuestion(MaxIndexQuestions, OpenDates)
    \/ \E user \in Voters : IndexView(SerialWorker, user)

SpecIndex == Init /\ [][NextIndex]_vars

\* The listing of a question's choices, after votes and saves of the counter.
NextChoices ==
    \/ CreateQuestion(SmallQuestions, {0})
    \/ CreateChoice(MaxChoices)
    \/ \E c \in DOMAIN choices, v \in 0..MaxVotes : SaveChoice(c, v)
    \/ \E q \in DOMAIN questions, c \in DOMAIN choices :
           vote_get(SerialWorker, PlainUser, q, PostChoice(c))
    \/ vote_save(SerialWorker)
    \/ \E pk \in DOMAIN questions : ChoiceSetAll(SerialWorker, pk)

SpecChoices == Init /\ [][NextChoices]_vars

\* Accounts: creations and saves.
NextUsers ==
    \/ CreateUser(MaxUsers)
    \/ SaveUser

SpecUsers == Init /\ [][NextUsers]_vars

\* A vote on a question that is or is not published yet, then its results.
HiddenDates == {0, 1}

NextHidden ==
    \/ Tick
    \/ CreateQuestion(SmallQuestions, HiddenDates)
    \/ CreateChoice(SmallChoices)
    \/ VoteRequest(SerialWorker)
    \/ vote_save(SerialWorker)
    \/ \E user \in RequestUsers, pk \in 1..(Len(questions) + 1) :
           ResultsView(SerialWorker, user, pk)

SpecHidden == Init /\ [][NextHidden]_vars

\* ================================================================= claims
\* A step in which worker w took a request and answered it or, for a vote on
\* a choice of the question, went on to the save.
Received(w) ==
    /\ pc[w] # "save"
    /\ <<request[w], pc[w], selected_choice[w], response[w]>>' #
           <<request[w], pc[w], selected_choice[w], response[w]>>

\* A step in which worker w ended a vote with the save.
SavedVote(w) == pc[w] = "save" /\ pc'[w] = "done"

\* The posted choice of a request is a choice of the requested question.
PostsChoiceOf(req) ==
    /\ req.POST # NoPost
    /\ req.POST[1].numeric
    /\ req.POST[1].int \in DOMAIN choices
    /\ choices[req.POST[1].int].question = req.pk

\* The request is a vote of a logged-in caller on an existing question.
VoteOfAuthenticated(req) ==
    /\ req.view = "vote"
    /\ req.user.is_authenticated
    /\ req.pk \in DOMAIN questions

\* C1: for an authenticated caller, a vote request on question Q that posts
\* the id of a choice C of Q goes on to the save, which increments C.votes by
\* exactly one and answers with the redirect to the results of Q.
C1_VoteIncrementsByOne ==
    [][ LET w == SerialWorker IN
        /\ (Received(w) /\ VoteOfAuthenticated(request'[w]) /\ PostsChoiceOf(request'[w]))
              => /\ pc'[w] = "save"
                 /\ selected_choice'[w].pk = request'[w].POST[1].int
        /\ SavedVote(w)
              => /\ VoteOfAuthenticated(request[w]) /\ PostsChoiceOf(request[w])
                 /\ choices'[request[w].POST[1].int].votes
                        = choices[request[w].POST[1].int].votes + 1
                 /\ response'[w].status = 302
                 /\ response'[w].location = "polls:results"
                 /\ response'[w].pk = request[w].pk
      ]_vars

\* C1 witness: a second vote of a logged-in caller on a choice of the question
\* was answered with the redirect to its results, and the counter stands at 2.
C1_Witness ==
    LET w == SerialWorker IN
    /\ pc[w] = "done"
    /\ VoteOfAuthenticated(request[w]) /\ PostsChoiceOf(request[w])
    /\ response[w].status = 302 /\ response[w].location = "polls:results"
    /\ response[w].pk = request[w].pk
    /\ choices[request[w].POST[1].int].votes = 2

\* C2: for an authenticated caller, a vote request on an existing question
\* that carries no choice, the id of no existing choice, or the id of a choice
\* of another question leaves every counter unchanged and is answered 200 with
\* the voting form and the error message.
C2_InvalidChoiceRerendersForm ==
    [][ LET w == SerialWorker IN
        (/\ Received(w)
         /\ VoteOfAuthenticated(request'[w])
         /\ \/ request'[w].POST = NoPost
            \/ /\ request'[w].POST # NoPost
               /\ request'[w].POST[1].numeric
               /\ \/ request'[w].POST[1].int \notin DOMAIN choices
                  \/ /\ request'[w].POST[1].int \in DOMAIN choices
                     /\ choices[request'[w].POST[1].int].question # request'[w].pk)
        => /\ choices' = choices
           /\ pc'[w] = "done"
           /\ response'[w].status = 200
           /\ response'[w].template = "polls/detail.html"
           /\ response'[w].pk = request'[w].pk
           /\ response'[w].error_message = "You didn't select a choice."
      ]_vars

\* C2 witness: a logged-in caller posted to question Q the id of a choice that
\* has votes and belongs to another question, and got the form back.
C2_Witness ==
    LET w == SerialWorker IN
    /\ pc[w] = "done"
    /\ VoteOfAuthenticated(request[w])
    /\ request[w].POST # NoPost
    /\ request[w].POST[1].numeric
    /\ request[w].POST[1].int \in DOMAIN choices
    /\ choices[request[w].POST[1].int].question # request[w].pk
    /\ choices[request[w].POST[1].int].votes = 1
    /\ response[w].status = 200
    /\ response[w].error_message = "You didn't select a choice."

\* C5: a vote request of an unauthenticated caller is answered with the
\* redirect to the login page, the vote URL of the question as its next
\* parameter, and changes no counter, whatever it posts.
C5_AnonymousVoteRedirectsToLogin ==
    [][ LET w == SerialWorker IN
        (/\ Received(w)
         /\ request'[w].view = "vote"
         /\ ~request'[w].user.is_authenticated)
        => /\ choices' = choices
           /\ pc'[w] = "done"
           /\ response'[w].status = 302
           /\ response'[w].location = LOGIN_URL
           /\ response'[w].next = "polls:vote"
           /\ response'[w].pk = request'[w].pk
      ]_vars

\* C5 witness: an anonymous caller posted a choice of the question and was
\* sent to the login page; the choice has no votes.
C5_Witness ==
    LET w == SerialWorker IN
    /\ pc[w] = "done"
    /\ request[w].view = "vote"
    /\ ~request[w].user.is_authenticated
    /\ PostsChoiceOf(request[w])
    /\ choices[request[w].POST[1].int].votes = 0
    /\ response[w].status = 302
    /\ response[w].location = LOGIN_URL
    /\ response[w].next = "polls:vote"

\* The response is the redirect to the results of question q.
RedirectsToResults(resp, q) ==
    resp.status = 302 /\ resp.location = "polls:results" /\ resp.pk = q

\* C4: concurrent votes may lose updates. Every vote that read a choice ends
\* with the redirect to the results, whatever the interleaving; and when two
\* votes for one choice have both read the counter at v (each before the other
\* wrote it back) and both have ended, the stored counter is v + 1, one higher
\* and not two, while two requests were answered as successful.
C4_ConcurrentVotesLoseUpdate ==
    /\ \A w \in Workers :
           (pc[w] = "done" /\ selected_choice[w] # NoChoice)
               => RedirectsToResults(response[w], request[w].pk)
    /\ \A w1 \in Workers, w2 \in Workers :
           (/\ w1 # w2
            /\ pc[w1] = "done" /\ pc[w2] = "done"
            /\ selected_choice[w1] # NoChoice
            /\ selected_choice[w1] = selected_choice[w2])
           => /\ choices[selected_choice[w1].pk].votes = selected_choice[w1].votes
              /\ redirects[selected_choice[w1].pk] > choices[selected_choice[w1].pk].votes

\* C4 witness: both workers read the counter of one choice at 0, both were
\* answered with the redirect, and the counter stands at 1 after 2 successful
\* votes.
C4_Witness ==
    \E w1 \in Workers, w2 \in Workers :
        /\ w1 # w2
        /\ pc[w1] = "done" /\ pc[w2] = "done"
        /\ selected_choice[w1] = selected_choice[w2]
        /\ selected_choice[w1].pk \in DOMAIN choices
        /\ selected_choice[w1].votes = 1
        /\ RedirectsToResults(response[w1], request[w1].pk)
        /\ RedirectsToResults(response[w2], request[w2].pk)
        /\ choices[selected_choice[w1].pk].votes = 1
        /\ redirects[selected_choice[w1].pk] = 2

\* Every counter equals the number of votes on its choice answered with the
\* redirect to the results.
C10_Tally ==
    \A c \in DOMAIN choices : choices[c].votes = redirects[c]

\* What a step may change: counters only grow, a new choice starts at 0, a
\* request changes no table before the save, and the save changes the selected
\* choice's counter alone.
C10_Frame ==
    LET w == SerialWorker IN
    /\ \A c \in DOMAIN choices : choices'[c].votes >= choices[c].votes
    /\ Len(choices') > Len(choices)
          => /\ choices'[Len(choices')].votes = 0
             /\ \A c \in DOMAIN choices : choices'[c] = choices[c]
    /\ Received(w) => UNCHANGED database
    /\ SavedVote(w)
          => /\ UNCHANGED <<questions, comments, users, profiles>>
             /\ DOMAIN choices' = DOMAIN choices
             /\ \A c \in DOMAIN choices :
                    c # selected_choice[w].pk => choices'[c] = choices[c]
             /\ choices'[selected_choice[w].pk].question
                    = choices[selected_choice[w].pk].question

\* C10: with the vote requests served one at a time, every counter equals the
\* number of vote requests on that choice answered with the redirect to the
\* results; a counter starts at 0 and never decreases; and a vote changes no
\* choice but the selected one, and no question, comment, account or profile.
C10_SerialVotesCount == []C10_Tally /\ [][C10_Frame]_vars

\* C10 witness: after two successful votes, one on each of two choices of a
\* question that has a comment, beside an account with its profile, each
\* counter stands at 1.
C10_Witness ==
    /\ pc[SerialWorker] = "done"
    /\ Len(choices) = 2
    /\ choices[1].question = choices[2].question
    /\ choices[1].votes = 1 /\ choices[2].votes = 1
    /\ redirects = <<1, 1>>
    /\ Len(comments) = 1 /\ Len(profiles) = 1
    /\ RedirectsToResults(response[SerialWorker], choices[1].question)

\* C3: for an existing question and any caller, the question page and the
\* results page answer not-found exactly when the question is hidden (its
\* publication date is in the future, or it has no choice) and the caller is
\* not an admin; otherwise the page of that question is rendered.
C3_HiddenQuestionNotFound ==
    [][ LET w == SerialWorker
            req == request'[w]
            hidden == \/ questions[req.pk].pub_date > now
                      \/ Cardinality({c \in DOMAIN choices : choices[c].question = req.pk}) = 0
        IN (/\ Received(w)
            /\ req.view \in {"question", "results"}
            /\ req.pk \in DOMAIN questions)
           => /\ (response'[w].status = 404) <=> (hidden /\ ~req.user.is_superuser)
              /\ response'[w].status # 404
                    => /\ response'[w].status = 200
                       /\ response'[w].pk = req.pk
                       /\ response'[w].template =
                              (IF req.view = "question" THEN "polls/question.html"
                               ELSE "polls/results.html")
      ]_vars

\* C3 witness: a logged-in caller who is no admin asked for the results of a
\* question published in the past that has no choice, and got not-found.
C3_Witness ==
    LET w == SerialWorker IN
    /\ pc[w] = "done"
    /\ request[w].view = "results"
    /\ request[w].user = PlainUser
    /\ request[w].pk \in DOMAIN questions
    /\ questions[request[w].pk].pub_date < 0
    /\ choice_set(request[w].pk) = {}
    /\ response[w].status = 404

\* C7 as stated: was_published_recently is false for a publication time in the
\* future, false for one at or before now - 1 day, and true for one after
\* now - 1 day and not after now.
C7_HalfOpenWindow ==
    [][ LET w == SerialWorker
            pub == questions[request'[w].pk].pub_date
            value == response'[w].value
        IN (Received(w) /\ request'[w].view = "was_published_recently")
           => /\ pub > now => ~value
              /\ pub <= now - 24 => ~value
              /\ (pub > now - 24 /\ pub <= now) => value
      ]_vars

\* C7 amended: was_published_recently is true exactly inside the closed window
\* [now - 1 day, now]: false for a publication time in the future, false for
\* one before now - 1 day, and true for one from now - 1 day to now, both ends
\* included.
C7_ClosedWindow ==
    [][ LET w == SerialWorker
            pub == questions[request'[w].pk].pub_date
            value == response'[w].value
        IN (Received(w) /\ request'[w].view = "was_published_recently")
           => /\ pub > now => ~value
              /\ pub < now - 24 => ~value
              /\ (pub >= now - 24 /\ pub <= now) => value
      ]_vars

\* C7 witness: at hour 0 the method answered true for a question published
\* exactly one day before.
C7_Witness ==
    LET w == SerialWorker IN
    /\ pc[w] = "done"
    /\ request[w].view = "was_published_recently"
    /\ now = 0
    /\ questions[request[w].pk].pub_date = 0 - 24
    /\ response[w].value = TRUE

\* The sequence s holds no element twice.
NoRepeats(s) == \A i \in DOMAIN s, j \in DOMAIN s : s[i] = s[j] => i = j

\* C8: the index lists, for any caller, only questions whose publication date
\* is not in the future, in descending order of publication date, each once,
\* and at most five of them: all of them when there are five or fewer, else
\* five than which no question left out is more recent.
C8_IndexListsLatestFive ==
    [][ LET w == SerialWorker
            list == response'[w].object_list
            published == {q \in DOMAIN questions : questions[q].pub_date <= now}
            listed == {list[i] : i \in DOMAIN list}
        IN (Received(w) /\ request'[w].view = "index")
           => /\ response'[w].status = 200
              /\ listed \subseteq published
              /\ NoRepeats(list)
              /\ \A i \in DOMAIN list, j \in DOMAIN list :
                     i < j => questions[list[i]].pub_date >= questions[list[j]].pub_date
              /\ Len(list) <= 5
              /\ Len(list) = (IF Cardinality(published) <= 5
                              THEN Cardinality(published) ELSE 5)
              /\ \A q \in published \ listed, l \in listed :
                     questions[q].pub_date <= questions[l].pub_date
      ]_vars

\* C8 witness: an anonymous caller got five of six published questions, of
\* more than one date, and an older one was left out.
C8_Witness ==
    LET w == SerialWorker
        list == response[w].object_list
    IN /\ pc[w] = "done"
       /\ request[w].view = "index"
       /\ request[w].user = AnonymousUser
       /\ Len(questions) = 6
       /\ Len(list) = 5
       /\ questions[list[1]].pub_date > questions[list[5]].pub_date
       /\ \E q \in DOMAIN questions :
              /\ \A i \in DOMAIN list : list[i] # q
              /\ questions[q].pub_date < questions[list[1]].pub_date

\* The sequence of choices is in descending order of votes.
DescendingVotes(list) ==
    \A i \in DOMAIN list, j \in DOMAIN list :
        i < j => choices[list[i]].votes >= choices[list[j]].votes

\* The default query and the query ordered by '-votes' may return the same
\* listings.
C9_Listings ==
    \A q \in DOMAIN questions :
        choice_set_all(q) = choice_set_order_by(q, "-votes")

\* A listing returned by the default query.
C9_Listed ==
    LET w == SerialWorker
        list == response'[w].object_list
        q == request'[w].pk
        of_q == {c \in DOMAIN choices : choices[c].question = q}
    IN (Received(w) /\ request'[w].view = "choice_set")
       => /\ list \in choice_set_order_by(q, "-votes")
          /\ {list[i] : i \in DOMAIN list} = of_q
          /\ NoRepeats(list)
          /\ DescendingVotes(list)
          /\ list # <<>> => \A c \in of_q : choices[list[1]].votes >= choices[c].votes

\* C9: after any votes and saves of the counters, the default listing of a
\* question's choices is a listing ordered by descending votes: the default
\* query returns what the query explicitly ordered by '-votes' returns, every
\* choice of the question once, in descending order of votes, so that its
\* first element has the most votes of the question.
C9_DefaultOrderIsDescendingVotes == []C9_Listings /\ [][C9_Listed]_vars

\* C9 witness: the listing of a question came with the choice created second
\* first: it has the votes, the choice created first has none.
C9_Witness ==
    LET w == SerialWorker IN
    /\ pc[w] = "done"
    /\ request[w].view = "choice_set"
    /\ response[w].object_list = <<2, 1>>
    /\ choices[2].votes > choices[1].votes
    /\ redirects[2] > 0

\* Every account has one profile, every profile an account.
C6_Profiles ==
    /\ \A u \in DOMAIN users :
           Cardinality({p \in DOMAIN profiles : profiles[p].user = u}) = 1
    /\ \A p \in DOMAIN profiles : profiles[p].user \in DOMAIN users
    /\ Len(profiles) = Len(users)

\* A creation adds the profile of the new account, a save adds none.
C6_Step ==
    /\ Len(users') = Len(users) + 1
          => profiles' = Append(profiles, [user |-> Len(users')])
    /\ Len(users') = Len(users) => profiles' = profiles

\* C6: after any creations of accounts and saves of existing accounts, every
\* account has exactly one profile and every profile belongs to an account:
\* a creation adds one profile, that of the new account, and a save adds none.
C6_OneProfilePerUser == []C6_Profiles /\ [][C6_Step]_vars

\* C6 witness: two accounts, the first saved after its creation with flags no
\* creation gives, and two profiles, one for each.
C6_Witness ==
    /\ Len(users) = 2
    /\ users[1].is_staff /\ ~users[1].is_superuser
    /\ Len(profiles) = 2
    /\ profiles[1].user = 1 /\ profiles[2].user = 2

\* C11: the vote route does not apply the rule of the hidden questions. A
\* logged-in caller who is no admin and posts a choice of a question dated in
\* the future goes on to the save; the save increments that choice's counter
\* by one and redirects to the results of the question; and the results
\* route, asked by the same caller for that question right after the redirect
\* and while the date is still in the future, answers not-found.
C11_VoteIgnoresHiddenRule ==
    [][ LET w == SerialWorker IN
        /\ (/\ Received(w)
            /\ VoteOfAuthenticated(request'[w])
            /\ ~request'[w].user.is_superuser
            /\ PostsChoiceOf(request'[w])
            /\ questions[request'[w].pk].pub_date > now)
              => /\ pc'[w] = "save"
                 /\ selected_choice'[w].pk = request'[w].POST[1].int
        /\ (SavedVote(w) /\ questions[request[w].pk].pub_date > now)
              => /\ choices'[request[w].POST[1].int].votes
                        = choices[request[w].POST[1].int].votes + 1
                 /\ response'[w].status = 302
                 /\ response'[w].location = "polls:results"
                 /\ response'[w].pk = request[w].pk
        /\ (/\ Received(w)
            /\ request[w].view = "vote"
            /\ response[w].status = 302 /\ response[w].location = "polls:results"
            /\ request'[w].view = "results"
            /\ request'[w].pk = response[w].pk
            /\ request'[w].user = request[w].user
            /\ ~request'[w].user.is_superuser
            /\ questions[request'[w].pk].pub_date > now)
              => response'[w].status = 404
      ]_vars

\* C11 witness: a caller who is no admin was told not-found for the results
\* of a question still dated in the future, whose choice holds the vote that
\* was answered with the redirect to those results.
C11_Witness ==
    LET w == SerialWorker IN
    /\ pc[w] = "done"
    /\ request[w].view = "results"
    /\ request[w].user = PlainUser
    /\ request[w].pk \in DOMAIN questions
    /\ questions[request[w].pk].pub_date > now
    /\ response[w].status = 404
    /\ \E c \in DOMAIN choices :
           /\ choices[c].question = request[w].pk
           /\ choices[c].votes = 1
           /\ redirects[c] = 1

====
